---------------------------- MODULE Spec2Model ----------------------------
(***************************************************************************)
(* Model of the Mida fixed-scale decimal (src/core/decimals/MidaDecimal.ts)*)
(* and of the event emitter a broker account holds                         *)
(* (src/core/brokers/MidaBrokerAccount.ts).                                *)
(*                                                                         *)
(* A JavaScript string is a sequence of one-character strings, so that     *)
(* String.split, padStart, slice, replace, Number(...) and BigInt(...) are *)
(* modelled by what they do to the characters.  A bigint is an integer.    *)
(* TLC's integers are 32 bits wide, so the number of fractional digits     *)
(* the decimal keeps (32 in the source) is scaled down to DECIMALS below;  *)
(* every string operation of the source depends on it only through         *)
(* padStart/padEnd/slice lengths, which keep their shape at a small scale. *)
(***************************************************************************)
EXTENDS Integers, Sequences, FiniteSets, TLC

VARIABLES
    text,       \* the string handed to the MidaDecimal constructor
    dec,        \* the outcome of that construction (a decimal or an error)
    str,        \* the output of toString() on the constructed decimal
    back,       \* the outcome of constructing a decimal from str
    spc,        \* position in the construct / toString / construct sequence
    lhs,        \* the decimal a chain of arithmetic calls starts from
    rhs,        \* the decimal passed as the operand of those calls
    acc,        \* the outcome the chain of calls has reached
    trail,      \* the arithmetic calls made so far, with operand and result
    operands,   \* the argument list of MidaDecimal.min / MidaDecimal.max
    agg,        \* the outcome of the last min / max call
    emitter,    \* the account's #emitter: registrations, deliveries, promises
    history,    \* the calls made on the account's emitter methods, in order
    asyncListeners, \* ids of the listeners whose callback is an async function
    dispatches, \* the notifyListeners calls on the asynchronous emitter
    callerPc,   \* where the caller of account.notifyListeners stands
    dispatchMode \* how the asynchronous emitter runs the listeners

stringVars == <<text, dec, str, back, spc>>

arithVars == <<lhs, rhs, acc, trail>>

aggVars == <<operands, agg>>

emitterVars == <<emitter, history>>

accountVars == <<asyncListeners, dispatches, callerPc, dispatchMode>>

decimalVars == <<stringVars, arithVars, aggVars>>

vars == <<stringVars, arithVars, aggVars, emitterVars, accountVars>>

-----------------------------------------------------------------------------
(* Bounds of the model.                                                    *)

\* Number of fractional digits kept (MidaDecimal.#decimals, 32 in the source).
DECIMALS == 2
\* Longest input string handed to the constructor.
MaxLen == 5
\* Largest magnitude of a scaled value a decimal holds before toString().
MaxHeld == 1200
\* Most integer digits of a well-formed decimal string.
MaxIntDigits == 1
\* Most fractional digits of a well-formed decimal string beyond DECIMALS.
MaxExtraDigits == 2
\* Largest small scaled value among the arithmetic operands.
MaxSmall == 5
\* Largest number of halves among the arithmetic operands.
MaxHalves == 6
\* Longest chain of arithmetic calls.
MaxCalls == 2
\* Largest whole number in an argument list of min / max.
MaxAggUnits == 5
\* Longest argument list of min / max.
MaxOperands == 3
\* Most calls on the emitter methods of an account.
MaxEmitterCalls == 4
\* Most listeners registered before asynchronous dispatches.
MaxListeners == 2
\* Most notifyListeners calls on the asynchronous emitter.
MaxNotifies == 2

-----------------------------------------------------------------------------
(* JavaScript strings as sequences of characters.                          *)

DigitChars == <<"0", "1", "2", "3", "4", "5", "6", "7", "8", "9">>

HexChars == DigitChars \o <<"a", "b", "c", "d", "e", "f">>

IsDigit(c) == \E i \in 1..10 : DigitChars[i] = c

IsHexDigit(c) == \E i \in 1..16 : HexChars[i] = c

DigitVal(c) == (CHOOSE i \in 1..10 : DigitChars[i] = c) - 1

HexVal(c) == (CHOOSE i \in 1..16 : HexChars[i] = c) - 1

AllDigits(s) == \A i \in 1..Len(s) : IsDigit(s[i])

AllHexDigits(s) == \A i \in 1..Len(s) : IsHexDigit(s[i])

Contains(s, c) == \E i \in 1..Len(s) : s[i] = c

\* String.prototype.indexOf(c) !== -1 is Contains; the index of the first match:
FirstIndex(s, c) == CHOOSE i \in 1..Len(s) : s[i] = c /\ \A j \in 1..(i - 1) : s[j] # c

\* String.prototype.replace(c, r) with a string pattern: the first match only.
ReplaceFirst(s, c, r) ==
    IF Contains(s, c)
    THEN LET i == FirstIndex(s, c)
         IN SubSeq(s, 1, i - 1) \o r \o SubSeq(s, i + 1, Len(s))
    ELSE s

PadStart(s, n, c) == IF Len(s) >= n THEN s ELSE [i \in 1..(n - Len(s)) |-> c] \o s

PadEnd(s, n, c) == IF Len(s) >= n THEN s ELSE s \o [i \in 1..(n - Len(s)) |-> c]

\* s.slice(0, n) for n >= 0
SliceTo(s, n) == SubSeq(s, 1, IF n < Len(s) THEN n ELSE Len(s))

\* s.slice(0, -n) for n > 0
SliceDropLast(s, n) == SubSeq(s, 1, Len(s) - n)

\* s.slice(-n) for n > 0
SliceLast(s, n) == IF Len(s) <= n THEN s ELSE SubSeq(s, Len(s) - n + 1, Len(s))

\* s.split("."): the segments between the dots, at least one.
RECURSIVE Split(_)
Split(s) ==
    IF Contains(s, ".")
    THEN LET i == FirstIndex(s, ".")
         IN <<SubSeq(s, 1, i - 1)>> \o Split(SubSeq(s, i + 1, Len(s)))
    ELSE <<s>>

\* s.replace(/\.?0+$/, ""): the trailing run of zeros, with a dot just before it.
RECURSIVE StripTrailingZeros(_)
StripTrailingZeros(s) ==
    IF Len(s) > 0 /\ s[Len(s)] = "0" THEN StripTrailingZeros(SubSeq(s, 1, Len(s) - 1)) ELSE s

ReplaceDotZerosAtEnd(s) ==
    IF Len(s) > 0 /\ s[Len(s)] = "0"
    THEN LET t == StripTrailingZeros(s)
         IN IF Len(t) > 0 /\ t[Len(t)] = "." THEN SubSeq(t, 1, Len(t) - 1) ELSE t
    ELSE s

\* s.replace(/\.$/, "")
ReplaceDotAtEnd(s) ==
    IF Len(s) > 0 /\ s[Len(s)] = "." THEN SubSeq(s, 1, Len(s) - 1) ELSE s

RECURSIVE DecValue(_)
DecValue(s) == IF Len(s) = 0 THEN 0 ELSE 10 * DecValue(SubSeq(s, 1, Len(s) - 1)) + DigitVal(s[Len(s)])

RECURSIVE HexValue(_)
HexValue(s) == IF Len(s) = 0 THEN 0 ELSE 16 * HexValue(SubSeq(s, 1, Len(s) - 1)) + HexVal(s[Len(s)])

\* BigInt.prototype.toString() of a non-negative value
RECURSIVE ToDigits(_)
ToDigits(n) == IF n < 10 THEN <<DigitChars[n + 1]>> ELSE ToDigits(n \div 10) \o <<DigitChars[(n % 10) + 1]>>

BigIntToString(v) == IF v < 0 THEN <<"-">> \o ToDigits(-v) ELSE ToDigits(v)

-----------------------------------------------------------------------------
(* Number(string) and BigInt(string), for strings without white space,     *)
(* "+", "." (the constructor splits on it), upper-case letters and the     *)
(* 0o / 0b prefixes, none of which the inputs of the model contain.        *)

\* 0x followed by at least one hexadecimal digit
IsHexLiteral(s) ==
    /\ Len(s) >= 3
    /\ s[1] = "0"
    /\ s[2] = "x"
    /\ AllHexDigits(SubSeq(s, 3, Len(s)))

\* digits, then optionally e, an optional sign and digits
IsUnsignedDecimalLiteral(s) ==
    \/ Len(s) > 0 /\ AllDigits(s)
    \/ /\ Contains(s, "e")
       /\ LET k == FirstIndex(s, "e")
              m == SubSeq(s, 1, k - 1)
              x == SubSeq(s, k + 1, Len(s))
              xd == IF Len(x) > 0 /\ x[1] = "-" THEN Tail(x) ELSE x
          IN Len(m) > 0 /\ AllDigits(m) /\ Len(xd) > 0 /\ AllDigits(xd)

RECURSIVE StripLeadingZeros(_)
StripLeadingZeros(s) == IF Len(s) > 0 /\ s[1] = "0" THEN StripLeadingZeros(Tail(s)) ELSE s

\* A decimal literal whose value exceeds the largest double (about 1.8e308)
\* converts to Infinity.  The literals of the model are far shorter than 308
\* digits, so only an exponent can take them there.
DecimalLiteralOverflows(s) ==
    /\ Contains(s, "e")
    /\ LET k == FirstIndex(s, "e")
           m == StripLeadingZeros(SubSeq(s, 1, k - 1))
           x == SubSeq(s, k + 1, Len(s))
       IN /\ Len(m) > 0
          /\ Len(x) > 0
          /\ x[1] # "-"
          /\ DecValue(x) + Len(m) - 1 > 308

\* Number.isFinite(Number(s))
NumberIsFinite(s) ==
    LET u == IF Len(s) > 0 /\ s[1] = "-" THEN Tail(s) ELSE s
    IN \/ Len(s) = 0
       \/ IsHexLiteral(s)
       \/ IsUnsignedDecimalLiteral(u) /\ ~DecimalLiteralOverflows(u)

\* Number(c) >= 5 for the character c = decimals[#decimals]; undefined when the
\* string is shorter, and then Number(undefined) is NaN and the test is false.
CharAtLeastFive(s, i) == i <= Len(s) /\ IsDigit(s[i]) /\ DigitVal(s[i]) >= 5

\* BigInt(s): a value, or a SyntaxError
BigIntParse(s) ==
    LET u == IF Len(s) > 0 /\ s[1] = "-" THEN Tail(s) ELSE s
    IN IF Len(s) = 0 THEN [ok |-> TRUE, value |-> 0]
       ELSE IF IsHexLiteral(s) THEN [ok |-> TRUE, value |-> HexValue(SubSeq(s, 3, Len(s)))]
       ELSE IF Len(u) > 0 /\ AllDigits(u)
            THEN [ok |-> TRUE, value |-> IF s[1] = "-" THEN -DecValue(u) ELSE DecValue(u)]
       ELSE [ok |-> FALSE, value |-> 0]

-----------------------------------------------------------------------------
(* MidaDecimal.  A decimal is its #value, a scaled integer; a call that    *)
(* throws yields an error outcome instead.                                 *)

\* MidaDecimal.#rounded
ROUNDED == TRUE

\* MidaDecimal.#shift: BigInt("1" followed by #decimals zeros)
SHIFT == DecValue(<<"1">> \o [i \in 1..DECIMALS |-> "0"])

Decimal(v) == [kind |-> "decimal", value |-> v, error |-> "none"]

Thrown(e) == [kind |-> "error", value |-> 0, error |-> e]

NoOutcome == [kind |-> "none", value |-> 0, error |-> "none"]

\* new MidaDecimal(value), value a string
MidaDecimalCtor(value) ==
    LET parts == Split(value) \o <<<<>>>>
        integers0 == parts[1]
        decimals0 == parts[2]
        decimals == IF Contains(decimals0, "-") THEN ReplaceFirst(decimals0, "-", <<"0">>) ELSE decimals0
        integers == IF Contains(integers0, "-") THEN ReplaceFirst(integers0, "-", <<>>) ELSE integers0
        isNegative == Contains(decimals0, "-") \/ Contains(integers0, "-")
        literal == (IF isNegative THEN <<"-">> ELSE <<>>)
                       \o integers \o SliceTo(PadEnd(decimals, DECIMALS, "0"), DECIMALS)
        parsed == BigIntParse(literal)
        carry == IF ROUNDED /\ CharAtLeastFive(decimals, DECIMALS + 1) THEN 1 ELSE 0
    IN IF ~NumberIsFinite(integers) \/ ~NumberIsFinite(decimals)
       THEN Thrown("Error")
       ELSE IF ~parsed.ok THEN Thrown("SyntaxError")
       ELSE Decimal(parsed.value + carry)

\* MidaDecimal.#toString with the sign inside the fractional digits deleted
\* instead of replaced by a zero.
MidaToString_SignDeleted(value) ==
    LET descriptor == PadStart(BigIntToString(value), DECIMALS + 1, "0")
        integers0 == SliceDropLast(descriptor, DECIMALS)
        decimals0 == ReplaceDotZerosAtEnd(SliceLast(descriptor, DECIMALS))
        decimals == IF Contains(decimals0, "-") THEN ReplaceFirst(decimals0, "-", <<>>) ELSE decimals0
        integers == IF Contains(integers0, "-") THEN ReplaceFirst(integers0, "-", <<>>) ELSE integers0
        isNegative == Contains(decimals0, "-") \/ Contains(integers0, "-")
    IN (IF isNegative THEN <<"-">> ELSE <<>>) \o ReplaceDotAtEnd(integers \o <<".">> \o decimals)

\* MidaDecimal.#toString(value)
MidaToString(value) ==
    LET descriptor == PadStart(BigIntToString(value), DECIMALS + 1, "0")
        integers0 == SliceDropLast(descriptor, DECIMALS)
        decimals0 == ReplaceDotZerosAtEnd(SliceLast(descriptor, DECIMALS))
        decimals == IF Contains(decimals0, "-") THEN ReplaceFirst(decimals0, "-", <<"0">>) ELSE decimals0
        integers == IF Contains(integers0, "-") THEN ReplaceFirst(integers0, "-", <<>>) ELSE integers0
        isNegative == Contains(decimals0, "-") \/ Contains(integers0, "-")
    IN (IF isNegative THEN <<"-">> ELSE <<>>) \o ReplaceDotAtEnd(integers \o <<".">> \o decimals)

\* decimal(value) = new MidaDecimal(value)
decimal(value) == MidaDecimalCtor(value)

\* decimal(operand) for an operand that is a MidaDecimal: String(operand) is
\* its toString()
decimalOf(v) == decimal(MidaToString(v))

\* bigint division truncates towards zero, and % takes the dividend's sign
TruncDiv(n, d) ==
    LET q == (IF n < 0 THEN -n ELSE n) \div (IF d < 0 THEN -d ELSE d)
    IN IF (n < 0) = (d < 0) THEN q ELSE -q

TruncRem(n, d) == n - d * TruncDiv(n, d)

\* MidaDecimal.#divideRound with the flooring division and modulus of other
\* languages in place of the truncating ones.
MidaDivideRound_Floor(dividend, divisor) ==
    IF divisor = 0 THEN Thrown("RangeError")
    ELSE LET d == IF divisor < 0 THEN -divisor ELSE divisor
             n == IF divisor < 0 THEN -dividend ELSE dividend
         IN decimal(MidaToString((n \div d) + (IF ROUNDED THEN ((n * 2) \div d) % 2 ELSE 0)))

\* MidaDecimal.#divideRound(dividend, divisor); a bigint division by zero
\* throws a RangeError
MidaDivideRound(dividend, divisor) ==
    IF divisor = 0 THEN Thrown("RangeError")
    ELSE decimal(MidaToString(TruncDiv(dividend, divisor)
             + (IF ROUNDED THEN TruncRem(TruncDiv(dividend * 2, divisor), 2) ELSE 0)))

\* this.add(operand)
MidaAdd(this, operand) ==
    LET o == decimalOf(operand)
    IN IF o.kind = "error" THEN o ELSE decimal(MidaToString(this + o.value))

\* this.subtract(operand) with the two sides of the subtraction swapped
MidaSubtract_Swapped(this, operand) ==
    LET o == decimalOf(operand)
    IN IF o.kind = "error" THEN o ELSE decimal(MidaToString(o.value - this))

\* this.subtract(operand)
MidaSubtract(this, operand) ==
    LET o == decimalOf(operand)
    IN IF o.kind = "error" THEN o ELSE decimal(MidaToString(this - o.value))

\* multiply that does not bring the product back to the scale
MidaMultiply_Unscaled(this, operand) ==
    LET o == decimalOf(operand)
    IN IF o.kind = "error" THEN o ELSE MidaDivideRound(this * o.value, 1)

\* this.multiply(operand), operand a MidaDecimal
MidaMultiply(this, operand) ==
    LET o == decimalOf(operand)
    IN IF o.kind = "error" THEN o ELSE MidaDivideRound(this * o.value, SHIFT)

\* this.multiply(operand), operand a number literal such as -1
MidaMultiplyLiteral(this, literal) ==
    LET o == decimal(literal)
    IN IF o.kind = "error" THEN o ELSE MidaDivideRound(this * o.value, SHIFT)

\* divide that answers a zero divisor with the decimal 0
MidaDivide_ZeroSentinel(this, operand) ==
    LET o == decimalOf(operand)
    IN IF o.kind = "error" THEN o
       ELSE IF o.value = 0 THEN Decimal(0)
       ELSE MidaDivideRound(this * SHIFT, o.value)

\* this.divide(operand)
MidaDivide(this, operand) ==
    LET o == decimalOf(operand)
    IN IF o.kind = "error" THEN o ELSE MidaDivideRound(this * SHIFT, o.value)

\* this.equals(operand)
MidaEquals(this, operand) == this = decimalOf(operand).value

\* this.greaterThan(operand)
MidaGreaterThan(this, operand) == this > decimalOf(operand).value

\* this.lessThan(operand)
MidaLessThan(this, operand) == this < decimalOf(operand).value

\* this.lessThan(0), this.greaterThan(0): String(0) is "0"
MidaLessThanLiteral(this, literal) == this < decimal(literal).value

MidaGreaterThanLiteral(this, literal) == this > decimal(literal).value

\* MidaDecimal.abs with the comparison inverted
MidaAbs_Inverted(operand) ==
    IF MidaGreaterThanLiteral(operand, <<"0">>)
    THEN MidaMultiplyLiteral(operand, <<"-", "1">>)
    ELSE Decimal(operand)

\* MidaDecimal.abs(operand)
MidaAbs(operand) ==
    IF MidaLessThanLiteral(operand, <<"0">>)
    THEN MidaMultiplyLiteral(operand, <<"-", "1">>)
    ELSE Decimal(operand)

\* The loop of MidaDecimal.min from index i (counted from 0 in the source):
\* every iteration reads operands[0]
RECURSIVE MinLoop(_, _, _)
MinLoop(ops, i, min) ==
    IF i < Len(ops)
    THEN LET operand == ops[0 + 1]
         IN MinLoop(ops, i + 1, IF MidaLessThan(operand, min) THEN operand ELSE min)
    ELSE min

\* MidaDecimal.min(...operands)
MidaMin(ops) == MinLoop(ops, 1, ops[0 + 1])

\* The loop of MidaDecimal.max, which reads operands[0] as well
RECURSIVE MaxLoop(_, _, _)
MaxLoop(ops, i, max) ==
    IF i < Len(ops)
    THEN LET operand == ops[0 + 1]
         IN MaxLoop(ops, i + 1, IF MidaGreaterThan(operand, max) THEN operand ELSE max)
    ELSE max

\* MidaDecimal.max(...operands)
MidaMax(ops) == MaxLoop(ops, 1, ops[0 + 1])

-----------------------------------------------------------------------------
(* The emitter a MidaBrokerAccount holds (#utilities/emitters/MidaEmitter). *)
(* Its source is not part of the repository files at hand: it is modelled   *)
(* from its specification.  The account's own methods, which delegate to    *)
(* it, are modelled from MidaBrokerAccount.ts.                              *)

EventTypes == {"x", "y"}

Payloads == {"v7", "v8"}

\* A new emitter: no registration; ids are issued in sequence (the uuids of
\* the source are fresh at every registration).  deliveries lists the
\* callback invocations, resolved the events the promises of on(type) got,
\* removals the removeEventListener calls the callbacks made.
NewEmitter ==
    [listeners |-> [t \in EventTypes |-> <<>>],
     nextId |-> 1,
     deliveries |-> <<>>,
     resolved |-> <<>>,
     removals |-> <<>>]

Registered(em) ==
    UNION {{em.listeners[t][i].id : i \in 1..Len(em.listeners[t])} : t \in EventTypes}

\* addEventListener(type, callback): a persistent registration at the end
EmitterAddEventListener(em, type) ==
    [em EXCEPT !.listeners[type] =
                   Append(@, [id |-> em.nextId, oneShot |-> FALSE, removes |-> 0]),
               !.nextId = @ + 1]

\* on(type, callback): the same as addEventListener
EmitterOn(em, type) == EmitterAddEventListener(em, type)

\* on(type, callback) with a callback that calls removeEventListener(removes)
\* when it is invoked
EmitterOnRemoving(em, type, removes) ==
    [em EXCEPT !.listeners[type] =
                   Append(@, [id |-> em.nextId, oneShot |-> FALSE, removes |-> removes]),
               !.nextId = @ + 1]

\* on(type): a one-shot registration whose callback removes it and resolves
\* the promise returned
EmitterOnPromise(em, type) ==
    [em EXCEPT !.listeners[type] =
                   Append(@, [id |-> em.nextId, oneShot |-> TRUE, removes |-> 0]),
               !.nextId = @ + 1]

WithoutId(regs, id) == LET Keep(r) == r.id # id IN SelectSeq(regs, Keep)

\* removeEventListener(id): removed from whichever type holds it, else nothing
EmitterRemoveEventListener(em, id) ==
    [em EXCEPT !.listeners = [t \in EventTypes |-> WithoutId(em.listeners[t], id)]]

IsResolved(em, id) == \E k \in 1..Len(em.resolved) : em.resolved[k].id = id

\* One registration is invoked with the event; a one-shot one removes itself
\* and resolves its promise (a promise keeps its first resolution); a callback
\* that removes a registration calls removeEventListener.
EmitterInvoke(em, reg, event) ==
    LET called == [em EXCEPT !.deliveries = Append(@, [id |-> reg.id, event |-> event])]
    IN IF reg.oneShot
       THEN [EmitterRemoveEventListener(called, reg.id) EXCEPT
                !.resolved = IF IsResolved(em, reg.id)
                             THEN @
                             ELSE Append(@, [id |-> reg.id, event |-> event])]
       ELSE IF reg.removes # 0
       THEN [EmitterRemoveEventListener(called, reg.removes) EXCEPT
                !.removals = Append(@, [id |-> reg.removes, by |-> reg.id,
                                        date |-> event.date])]
       ELSE called

RECURSIVE EmitterDispatch(_, _, _, _)
EmitterDispatch(em, regs, i, event) ==
    IF i > Len(regs) THEN em
    ELSE EmitterDispatch(EmitterInvoke(em, regs[i], event), regs, i + 1, event)

MidaEvent(type, data, now) == [type |-> type, data |-> data, date |-> now]

\* notifyListeners(type, data) of the synchronous discipline: every current
\* registration of the type is invoked, in registration order, before the
\* call returns
EmitterNotifyListeners(em, type, data, now) ==
    EmitterDispatch(em, em.listeners[type], 1, MidaEvent(type, data, now))

\* MidaBrokerAccount.on that takes the listener for granted
AccountOn_ListenerAssumed(em, type, hasListener) == EmitterOn(em, type)

\* MidaBrokerAccount.on(type, listener?)
AccountOn(em, type, hasListener) ==
    IF ~hasListener THEN EmitterOnPromise(em, type) ELSE EmitterOn(em, type)

\* MidaBrokerAccount.on(type, listener), the listener calling
\* account.removeEventListener(removes) when it is invoked
AccountOnRemoving(em, type, removes) == EmitterOnRemoving(em, type, removes)

\* MidaBrokerAccount.removeEventListener that does not reach the emitter
AccountRemoveEventListener_Dropped(em, uuid) == em

\* MidaBrokerAccount.removeEventListener that, given an id no registration
\* has, drops the last registration of every type (splice at index -1)
AccountRemoveEventListener_SpliceLast(em, uuid) ==
    IF uuid \in Registered(em)
    THEN EmitterRemoveEventListener(em, uuid)
    ELSE [em EXCEPT !.listeners =
              [t \in EventTypes |-> SubSeq(em.listeners[t], 1, Len(em.listeners[t]) - 1)]]

\* MidaBrokerAccount.removeEventListener(uuid)
AccountRemoveEventListener(em, uuid) == EmitterRemoveEventListener(em, uuid)

\* MidaBrokerAccount.notifyListeners that does not pass the descriptor on
AccountNotifyListeners_NoDescriptor(em, type, descriptor, now) ==
    EmitterNotifyListeners(em, type, "none", now)

\* MidaBrokerAccount.notifyListeners that forwards the call to the emitter twice
AccountNotifyListeners_Twice(em, type, descriptor, now) ==
    EmitterNotifyListeners(EmitterNotifyListeners(em, type, descriptor, now),
                           type, descriptor, now)

\* MidaBrokerAccount.notifyListeners(type, descriptor), listeners reacting
\* within their invocation
AccountNotifyListeners(em, type, descriptor, now) ==
    EmitterNotifyListeners(em, type, descriptor, now)

\* MidaBrokerAccount.notifyListeners is declared void and neither awaits nor
\* returns what #emitter.notifyListeners returns
AccountNotifyListenersAwaits == FALSE

\* notifyListeners of the asynchronous emitter, up to its first suspension:
\* the listeners are snapshot; run concurrently they are all invoked, run
\* sequentially the first one is.  An async listener stays running until its
\* reaction completes.
AsyncInvoke(d, ids, asyncIds) ==
    [d EXCEPT !.pending = SubSeq(@, Len(ids) + 1, Len(@)),
              !.running = @ \cup {ids[i] : i \in {j \in 1..Len(ids) : ids[j] \in asyncIds}}]

AsyncEmitterStart(em, type, data, now, mode, asyncIds) ==
    LET regs == em.listeners[type]
        ids == [i \in 1..Len(regs) |-> regs[i].id]
        d == [event |-> MidaEvent(type, data, now), pending |-> ids,
              running |-> {}, returned |-> FALSE]
    IN IF mode = "concurrent" THEN AsyncInvoke(d, ids, asyncIds)
       ELSE AsyncInvoke(d, SubSeq(ids, 1, IF Len(ids) > 0 THEN 1 ELSE 0), asyncIds)

\* The sequential loop resumes once the listener it awaits has completed.
AsyncEmitterResume(d, asyncIds) == AsyncInvoke(d, SubSeq(d.pending, 1, 1), asyncIds)

DispatchDone(d) == d.pending = <<>> /\ d.running = {}

-----------------------------------------------------------------------------
(* Construction from text, toString() and construction from its output.    *)

\* Characters of the arbitrary input texts: digits below and above the rounding
\* threshold, the sign, the dot, and letters (x of the hexadecimal prefix, e of
\* the exponent notation, which is a hexadecimal digit too).
TextChars == {"0", "1", "5", "-", ".", "x", "e"}

Texts == UNION {[1..n -> TextChars] : n \in 0..MaxLen}

\* Digits of the well-formed decimal strings.
TextDigits == {"0", "1", "5", "9"}

DigitStrings(n) == UNION {[1..k -> TextDigits] : k \in 0..n}

\* An optional "-", integer digits, and optionally a dot and fractional digits,
\* with at least one digit in all.
DecimalStrings ==
    {sign \o int \o frac :
        sign \in {<<>>, <<"-">>},
        int \in DigitStrings(MaxIntDigits),
        frac \in {<<>>} \cup {<<".">> \o f : f \in DigitStrings(DECIMALS + MaxExtraDigits)}}
    \ {<<>>, <<"-">>, <<".">>, <<"-", ".">>}

IdleString ==
    /\ text = <<>>
    /\ dec = NoOutcome
    /\ str = <<>>
    /\ back = NoOutcome
    /\ spc = "idle"

IdleArith ==
    /\ lhs = 0
    /\ rhs = 0
    /\ acc = NoOutcome
    /\ trail = <<>>

IdleAgg ==
    /\ operands = <<>>
    /\ agg = [op |-> "none", value |-> 0]

IdleEmitter ==
    /\ emitter = NewEmitter
    /\ history = <<>>

IdleAccount ==
    /\ asyncListeners = {}
    /\ dispatches = <<>>
    /\ callerPc = "ready"
    /\ dispatchMode = "concurrent"

\* Any text is handed to the constructor.
InitText ==
    /\ text \in Texts
    /\ dec = NoOutcome
    /\ spc = "text"
    /\ str = <<>>
    /\ back = NoOutcome
    /\ IdleArith
    /\ IdleAgg
    /\ IdleEmitter
    /\ IdleAccount

\* A decimal string is handed to the constructor, or a decimal already holds a
\* scaled value that arithmetic produced.
InitDecimalString ==
    /\ \/ /\ text \in DecimalStrings
          /\ dec = NoOutcome
          /\ spc = "text"
       \/ /\ text = <<>>
          /\ dec \in {Decimal(v) : v \in (-MaxHeld)..MaxHeld}
          /\ spc = "held"
    /\ str = <<>>
    /\ back = NoOutcome
    /\ IdleArith
    /\ IdleAgg
    /\ IdleEmitter
    /\ IdleAccount

\* new MidaDecimal(text)
Construct ==
    /\ spc = "text"
    /\ dec' = MidaDecimalCtor(text)
    /\ spc' = "constructed"
    /\ UNCHANGED <<text, str, back, arithVars, aggVars, emitterVars, accountVars>>

\* dec.toString()
CallToString ==
    /\ spc \in {"constructed", "held"}
    /\ dec.kind = "decimal"
    /\ str' = MidaToString(dec.value)
    /\ spc' = "rendered"
    /\ UNCHANGED <<text, dec, back, arithVars, aggVars, emitterVars, accountVars>>

\* new MidaDecimal(str)
Reconstruct ==
    /\ spc = "rendered"
    /\ back' = MidaDecimalCtor(str)
    /\ spc' = "reparsed"
    /\ UNCHANGED <<text, dec, str, arithVars, aggVars, emitterVars, accountVars>>

NextString == Construct \/ CallToString \/ Reconstruct

SpecText == InitText /\ [][NextString]_vars

SpecDecimalString == InitDecimalString /\ [][NextString]_vars

-----------------------------------------------------------------------------
(* Chains of arithmetic calls lhs.op1(rhs).op2(rhs)...                     *)

\* The decimals the chains start from and take as operand: the scaled values
\* of small magnitude, and the multiples of one half.
ArithValues ==
    ((-MaxSmall)..MaxSmall) \cup {k * (SHIFT \div 2) : k \in (-MaxHalves)..MaxHalves}

\* Largest magnitude a chain is continued from (products stay machine integers).
ArithLimit == 2 * MaxHalves * SHIFT

InitArith ==
    /\ lhs \in ArithValues
    /\ rhs \in ArithValues
    /\ acc = Decimal(lhs)
    /\ trail = <<>>
    /\ IdleString
    /\ IdleAgg
    /\ IdleEmitter
    /\ IdleAccount

CanCall ==
    /\ acc.kind = "decimal"
    /\ Len(trail) < MaxCalls
    /\ acc.value <= ArithLimit
    /\ -acc.value <= ArithLimit

Called(op, result) ==
    /\ acc' = result
    /\ trail' = Append(trail, [op |-> op, before |-> acc.value, after |-> result])
    /\ UNCHANGED <<lhs, rhs, stringVars, aggVars, emitterVars, accountVars>>

Add == CanCall /\ Called("add", MidaAdd(acc.value, rhs))

Subtract == CanCall /\ Called("subtract", MidaSubtract(acc.value, rhs))

Multiply == CanCall /\ Called("multiply", MidaMultiply(acc.value, rhs))

Divide == CanCall /\ Called("divide", MidaDivide(acc.value, rhs))

Abs == CanCall /\ Called("abs", MidaAbs(acc.value))

NextArith == Add \/ Subtract \/ Multiply \/ Divide \/ Abs

SpecArith == InitArith /\ [][NextArith]_vars

-----------------------------------------------------------------------------
(* MidaDecimal.min and MidaDecimal.max over an argument list.              *)

\* The whole numbers the argument lists are made of, as scaled values.
AggValues == {k * SHIFT : k \in (-MaxAggUnits)..MaxAggUnits}

InitAgg ==
    /\ operands \in UNION {[1..n -> AggValues] : n \in 1..MaxOperands}
    /\ agg = [op |-> "none", value |-> 0]
    /\ IdleString
    /\ IdleArith
    /\ IdleEmitter
    /\ IdleAccount

Min ==
    /\ agg' = [op |-> "min", value |-> MidaMin(operands)]
    /\ UNCHANGED <<operands, stringVars, arithVars, emitterVars, accountVars>>

Max ==
    /\ agg' = [op |-> "max", value |-> MidaMax(operands)]
    /\ UNCHANGED <<operands, stringVars, arithVars, emitterVars, accountVars>>

NextAgg == Min \/ Max

SpecAgg == InitAgg /\ [][NextAgg]_vars

-----------------------------------------------------------------------------
(* Calls on the account's emitter methods, the listeners reacting within   *)
(* their invocation.                                                       *)

InitEmitter ==
    /\ IdleEmitter
    /\ IdleAccount
    /\ IdleString
    /\ IdleArith
    /\ IdleAgg

CanCallEmitter == Len(history) < MaxEmitterCalls

Logged(call, type, id, data) ==
    /\ history' = Append(history, [call |-> call, type |-> type, id |-> id, data |-> data])
    /\ UNCHANGED <<decimalVars, accountVars>>

\* account.on(type, listener)
On(type) ==
    /\ CanCallEmitter
    /\ emitter' = AccountOn(emitter, type, TRUE)
    /\ Logged("on", type, emitter.nextId, "none")

\* account.on(type)
OnPromise(type) ==
    /\ CanCallEmitter
    /\ emitter' = AccountOn(emitter, type, FALSE)
    /\ Logged("wait", type, emitter.nextId, "none")

\* account.removeEventListener(uuid), uuid issued before or not (nextId is not)
RemoveEventListener(uuid) ==
    /\ CanCallEmitter
    /\ emitter' = AccountRemoveEventListener(emitter, uuid)
    /\ Logged("remove", "none", uuid, "none")

\* The registrations a new listener's callback may remove: the one registered
\* just before it, its own, and the one registered next.
RemovalTargets(em) == {id \in (em.nextId - 1)..(em.nextId + 1) : id >= 1}

\* account.on(type, listener) with a listener that calls
\* account.removeEventListener(target)
OnRemoving(type, target) ==
    /\ CanCallEmitter
    /\ emitter' = AccountOnRemoving(emitter, type, target)
    /\ Logged("on", type, emitter.nextId, "none")

\* The removeEventListener calls the callbacks made during a notifyListeners,
\* as entries of the history
CallbackRemovals(before, after) ==
    [k \in 1..(Len(after.removals) - Len(before.removals)) |->
        [call |-> "remove", type |-> "none",
         id |-> after.removals[Len(before.removals) + k].id, data |-> "callback"]]

\* account.notifyListeners(type, descriptor); the date of the event is the
\* position of the call in the history
NotifyListeners(type, descriptor) ==
    /\ CanCallEmitter
    /\ emitter' = AccountNotifyListeners(emitter, type, descriptor, Len(history) + 1)
    /\ history' = Append(history, [call |-> "notify", type |-> type, id |-> 0,
                                   data |-> descriptor])
                      \o CallbackRemovals(emitter, emitter')
    /\ UNCHANGED <<decimalVars, accountVars>>

NextEmitter ==
    \/ \E type \in EventTypes : On(type)
    \/ \E type \in EventTypes : OnPromise(type)
    \/ \E type \in EventTypes : \E target \in RemovalTargets(emitter) : OnRemoving(type, target)
    \/ \E uuid \in 1..emitter.nextId : RemoveEventListener(uuid)
    \/ \E type \in EventTypes, descriptor \in Payloads : NotifyListeners(type, descriptor)

SpecEmitter == InitEmitter /\ [][NextEmitter]_vars

-----------------------------------------------------------------------------
(* account.notifyListeners on the asynchronous emitter, with listeners     *)
(* whose reaction may complete after their invocation returns.             *)

InitAccount ==
    /\ emitter = NewEmitter
    /\ history = <<>>
    /\ asyncListeners = {}
    /\ dispatches = <<>>
    /\ callerPc = "ready"
    /\ dispatchMode \in {"sequential", "concurrent"}
    /\ IdleString
    /\ IdleArith
    /\ IdleAgg

\* account.on(type, listener), listener an async function or not
RegisterListener(type, isAsync) ==
    /\ callerPc = "ready"
    /\ emitter.nextId <= MaxListeners
    /\ emitter' = AccountOn(emitter, type, TRUE)
    /\ asyncListeners' = IF isAsync THEN asyncListeners \cup {emitter.nextId} ELSE asyncListeners
    /\ UNCHANGED <<history, dispatches, callerPc, dispatchMode, decimalVars>>

\* The caller enters account.notifyListeners(type, descriptor): the emitter's
\* notifyListeners runs up to its first suspension.
NotifyListenersCall(type, descriptor) ==
    /\ callerPc = "ready"
    /\ Len(dispatches) < MaxNotifies
    /\ dispatches' = Append(dispatches,
           AsyncEmitterStart(emitter, type, descriptor, Len(dispatches) + 1,
                             dispatchMode, asyncListeners))
    /\ callerPc' = "calling"
    /\ UNCHANGED <<emitter, history, asyncListeners, dispatchMode, decimalVars>>

\* account.notifyListeners returns and the caller's next statement runs.
NotifyListenersReturn ==
    /\ callerPc = "calling"
    /\ AccountNotifyListenersAwaits => DispatchDone(dispatches[Len(dispatches)])
    /\ dispatches' = [dispatches EXCEPT ![Len(dispatches)].returned = TRUE]
    /\ callerPc' = "ready"
    /\ UNCHANGED <<emitter, history, asyncListeners, dispatchMode, decimalVars>>

\* The sequential loop of a dispatch invokes its next listener.
DispatchStep(n) ==
    /\ dispatches[n].running = {}
    /\ dispatches[n].pending # <<>>
    /\ dispatches' = [dispatches EXCEPT ![n] = AsyncEmitterResume(@, asyncListeners)]
    /\ UNCHANGED <<emitter, history, asyncListeners, callerPc, dispatchMode, decimalVars>>

\* The reaction of an async listener completes.
ListenerCompletes(n, id) ==
    /\ id \in dispatches[n].running
    /\ dispatches' = [dispatches EXCEPT ![n].running = @ \ {id}]
    /\ UNCHANGED <<emitter, history, asyncListeners, callerPc, dispatchMode, decimalVars>>

NextAccount ==
    \/ \E type \in EventTypes, isAsync \in BOOLEAN : RegisterListener(type, isAsync)
    \/ \E type \in EventTypes, descriptor \in Payloads : NotifyListenersCall(type, descriptor)
    \/ NotifyListenersReturn
    \/ \E n \in 1..Len(dispatches) : DispatchStep(n)
    \/ \E n \in 1..Len(dispatches) : \E id \in dispatches[n].running : ListenerCompletes(n, id)

SpecAccount == InitAccount /\ [][NextAccount]_vars

-----------------------------------------------------------------------------
(* Properties of construction and string conversion.                       *)

Magnitude(v) == IF v < 0 THEN -v ELSE v

\* C3: a decimal constructed from the toString() output of a decimal holds
\* exactly the same scaled value, whatever its sign and number of digits.
C3_RoundTrip == spc = "reparsed" => back.kind = "decimal" /\ back.value = dec.value

\* A negative value with fewer digits than the scale has made the round trip.
C3_Witness ==
    /\ spc = "reparsed"
    /\ dec.value < 0
    /\ Magnitude(dec.value) * 10 < SHIFT
    /\ back.value = dec.value

\* The parts of a well-formed decimal string, read as a mathematician would.
TextIsNegative(t) == Len(t) > 0 /\ t[1] = "-"

TextUnsigned(t) == IF TextIsNegative(t) THEN Tail(t) ELSE t

TextIntDigits(t) == Split(TextUnsigned(t))[1]

TextFracDigits(t) == IF Contains(t, ".") THEN Split(TextUnsigned(t))[2] ELSE <<>>

TruncatedMagnitude(t) ==
    DecValue(TextIntDigits(t)) * SHIFT
        + DecValue(SliceTo(PadEnd(TextFracDigits(t), DECIMALS, "0"), DECIMALS))

FirstDiscardedCarry(t) == IF DigitVal(TextFracDigits(t)[DECIMALS + 1]) >= 5 THEN 1 ELSE 0

\* C5: a decimal string with more than DECIMALS fractional digits constructs the
\* truncated magnitude, plus one exactly when the first discarded digit is >= 5,
\* with the sign of the input (a "-" input never gives a positive value).
C5_RoundedMagnitudeKeepsSign ==
    (spc = "constructed" /\ Len(TextFracDigits(text)) > DECIMALS) =>
        /\ dec.kind = "decimal"
        /\ Magnitude(dec.value) = TruncatedMagnitude(text) + FirstDiscardedCarry(text)
        /\ TextIsNegative(text) => dec.value <= 0
        /\ ~TextIsNegative(text) => dec.value >= 0

TextLetters == {"x", "e"}

\* At most one dot, and a letter before or after it.
LetterInIntegerOrFraction(t) ==
    /\ Len(Split(t)) <= 2
    /\ \E i \in 1..Len(t) : t[i] \in TextLetters

\* C6: constructing from a text with a letter in its integer or fractional part
\* ends in an error, never in a decimal.
C6_LettersAreRejected ==
    (spc = "constructed" /\ LetterInIntegerOrFraction(text)) => dec.kind = "error"

-----------------------------------------------------------------------------
(* Properties of arithmetic.                                               *)

Calls == 1..Len(trail)

\* C2: adding an operand and subtracting it again gives back a decimal equal to
\* the one the chain started from, for every sign and magnitude.
C2_AddSubtractExact ==
    \A i \in Calls :
        (i > 1 /\ trail[i - 1].op = "add" /\ trail[i].op = "subtract") =>
            /\ trail[i].after.kind = "decimal"
            /\ trail[i].after.value = trail[i - 1].before
            /\ MidaEquals(trail[i].after.value, trail[i - 1].before)

\* A negative decimal below one had a positive operand added and subtracted.
C2_Witness ==
    /\ Len(trail) = 2
    /\ trail[1].op = "add"
    /\ trail[2].op = "subtract"
    /\ lhs < 0
    /\ -lhs < SHIFT
    /\ rhs > 0
    /\ acc.value = lhs

\* The exact quotient n / d rounded to the nearest integer, halves away from zero.
RoundHalfAway(n, d) ==
    LET q == (2 * Magnitude(n) + Magnitude(d)) \div (2 * Magnitude(d))
    IN IF (n < 0) = (d < 0) THEN q ELSE -q

\* C4: multiply and divide return the exact quotient rounded to the nearest
\* scaled integer, a discarded half or more going away from zero, for all signs.
C4_RoundingDivision ==
    \A i \in Calls :
        /\ trail[i].op = "multiply" =>
               trail[i].after = Decimal(RoundHalfAway(trail[i].before * rhs, SHIFT))
        /\ (trail[i].op = "divide" /\ rhs # 0) =>
               trail[i].after = Decimal(RoundHalfAway(trail[i].before * SHIFT, rhs))

\* A negative product whose discarded fraction is exactly one half was rounded,
\* after a division by a negative divisor that discarded a fraction.
C4_Witness ==
    /\ Len(trail) = 2
    /\ trail[1].op = "divide"
    /\ rhs < 0
    /\ trail[1].before > 0
    /\ (trail[1].before * SHIFT) % (-rhs) # 0
    /\ trail[2].op = "multiply"
    /\ 2 * ((-(trail[2].before * rhs)) % SHIFT) = SHIFT
    /\ trail[2].after.kind = "decimal"

\* C13: a.divide(b) with b equal to zero ends in an error (the RangeError of
\* the bigint division), whatever a is, and returns no decimal; the chain
\* ends there.
C13_DivideByZeroThrows ==
    \A i \in Calls :
        (trail[i].op = "divide" /\ rhs = 0) =>
            /\ trail[i].after = Thrown("RangeError")
            /\ trail[i].after.kind # "decimal"
            /\ i = Len(trail)
            /\ acc = trail[i].after

\* A decimal other than zero, result of an earlier call, was divided by zero.
C13_Witness ==
    /\ Len(trail) = 2
    /\ rhs = 0
    /\ trail[1].op = "abs"
    /\ trail[2].op = "divide"
    /\ trail[2].before > 0
    /\ acc.kind = "error"

\* Decimal(1).divide(Decimal(3)).multiply(Decimal(3)) was called.
OneThirdTimesThree(i) ==
    /\ i > 1
    /\ rhs = 3 * SHIFT
    /\ trail[i - 1].op = "divide"
    /\ trail[i - 1].before = SHIFT
    /\ trail[i].op = "multiply"

\* C14: Decimal(1).divide(Decimal(3)).multiply(Decimal(3)) is a decimal whose
\* scaled value is at most 1 away from the scaled value of Decimal(1).
C14_ThirdTimesThree ==
    \A i \in Calls :
        OneThirdTimesThree(i) =>
            /\ trail[i].after.kind = "decimal"
            /\ Magnitude(trail[i].after.value - decimal(<<"1">>).value) <= 1

\* Decimal(1) was divided by 3 and multiplied by 3, and the result is one
\* unit below Decimal(1).
C14_Witness ==
    /\ Len(trail) = 2
    /\ lhs = decimal(<<"1">>).value
    /\ OneThirdTimesThree(2)
    /\ acc = Decimal(SHIFT - 1)

\* C7: abs(x) is never negative, is x when x >= 0 and the exact negation of x
\* when x < 0, so x and its negation have the same abs.
C7_AbsExact ==
    \A i \in Calls :
        trail[i].op = "abs" =>
            /\ trail[i].after.kind = "decimal"
            /\ trail[i].after.value >= 0
            /\ trail[i].before >= 0 => trail[i].after.value = trail[i].before
            /\ trail[i].before < 0 => trail[i].after.value = -trail[i].before
            /\ MidaEquals(trail[i].after.value, MidaAbs(-trail[i].before).value)

\* abs was taken of a negative decimal that is not a whole number.
C7_Witness ==
    \E i \in Calls :
        /\ trail[i].op = "abs"
        /\ trail[i].before < 0
        /\ trail[i].before % SHIFT # 0
        /\ trail[i].after.value = -trail[i].before

-----------------------------------------------------------------------------
(* Properties of min and max.                                              *)

\* C1: min returns an operand that is <= every operand and max an operand that
\* is >= every operand, wherever in the list the extreme stands.
C1_MinMaxAreExtremes ==
    /\ agg.op = "min" =>
           /\ \E i \in 1..Len(operands) : operands[i] = agg.value
           /\ \A i \in 1..Len(operands) : agg.value <= operands[i]
    /\ agg.op = "max" =>
           /\ \E i \in 1..Len(operands) : operands[i] = agg.value
           /\ \A i \in 1..Len(operands) : agg.value >= operands[i]

-----------------------------------------------------------------------------
(* Properties of the emitter, read off the history of calls.               *)

HistoryCalls == 1..Len(history)

\* The position of the first removeEventListener(id) after position i, or
\* past the end of the history when there is none.
RemovedAt(i) ==
    LET later == {j \in HistoryCalls :
                      j > i /\ history[j].call = "remove" /\ history[j].id = history[i].id}
    IN IF later = {} THEN Len(history) + 1
       ELSE CHOOSE j \in later : \A k \in later : j <= k

\* The notifyListeners calls of the type registered at position i, made after it.
NotifiedAfter(i) ==
    {j \in HistoryCalls :
         j > i /\ history[j].call = "notify" /\ history[j].type = history[i].type}

\* The positions in emitter.deliveries of the invocations of registration id.
DeliveriesTo(id) == {k \in 1..Len(emitter.deliveries) : emitter.deliveries[k].id = id}

DeliveryDates(id) == {emitter.deliveries[k].event.date : k \in DeliveriesTo(id)}

\* C8: a persistent listener is invoked exactly once by each notifyListeners of
\* its type made after its registration and before its removal, and by no
\* notifyListeners made after removeEventListener was called with its id.
C8_PersistentListenerInvocations ==
    \A i \in HistoryCalls :
        history[i].call = "on" =>
            LET due == {j \in NotifiedAfter(i) : j < RemovedAt(i)}
            IN /\ DeliveryDates(history[i].id) = due
               /\ Cardinality(DeliveriesTo(history[i].id)) = Cardinality(due)

\* A listener was invoked, then removed, and a later notifyListeners of its
\* type left it alone.
C8_Witness ==
    \E i \in HistoryCalls :
        /\ history[i].call = "on"
        /\ Cardinality(DeliveriesTo(history[i].id)) = 1
        /\ \E j \in NotifiedAfter(i) : j > RemovedAt(i)

FirstOf(S) == CHOOSE j \in S : \A k \in S : j <= k

\* The on(type) call at position i was still pending when a notifyListeners of
\* its type was made.
WaitNotified(i) ==
    /\ history[i].call = "wait"
    /\ NotifiedAfter(i) # {}
    /\ FirstOf(NotifiedAfter(i)) < RemovedAt(i)

EventOfCall(j) == MidaEvent(history[j].type, history[j].data, j)

PassOf(j) ==
    LET InPass(d) == d.event.date = j
        pass == SelectSeq(emitter.deliveries, InPass)
    IN [k \in 1..Len(pass) |-> pass[k].id]

\* The registrations of the type notified at position j that were registered
\* and not removed when that notifyListeners was called.
PendingAt(j) ==
    {history[i].id : i \in {i \in HistoryCalls :
                                /\ i < j
                                /\ history[i].call \in {"on", "wait"}
                                /\ history[i].type = history[j].type
                                /\ RemovedAt(i) > j
                                /\ ~(history[i].call = "wait" /\ NotifiedAfter(i) \cap 1..(j - 1) # {})}}

\* The ids the callbacks invoked by the notifyListeners at position j passed
\* to removeEventListener.
RemovedDuring(j) ==
    {emitter.removals[k].id : k \in {k \in 1..Len(emitter.removals) :
                                         emitter.removals[k].date = j}}

\* C11: notifyListeners invokes registrations of its type that were current
\* at the call, in insertion order (ids are issued in registration order) and
\* none twice; every one of them that no callback of the pass removed is
\* invoked.
C11_DispatchOrderUnderRemoval ==
    \A j \in HistoryCalls :
        history[j].call = "notify" =>
            LET pass == PassOf(j)
                invoked == {pass[k] : k \in 1..Len(pass)}
            IN /\ \A k \in 1..(Len(pass) - 1) : pass[k] < pass[k + 1]
               /\ invoked \subseteq PendingAt(j)
               /\ PendingAt(j) \ RemovedDuring(j) \subseteq invoked

\* During one notifyListeners a callback removed a registration that was
\* still to be invoked, another one removed itself, and a registration made
\* after the removed one was invoked.
C11_Witness ==
    \E j \in HistoryCalls :
        /\ history[j].call = "notify"
        /\ \E k \in 1..Len(emitter.removals) :
              /\ emitter.removals[k].date = j
              /\ emitter.removals[k].id > emitter.removals[k].by
              /\ emitter.removals[k].id \in PendingAt(j)
              /\ \E m \in 1..Len(PassOf(j)) : PassOf(j)[m] > emitter.removals[k].id
        /\ \E k \in 1..Len(emitter.removals) :
              /\ emitter.removals[k].date = j
              /\ emitter.removals[k].id = emitter.removals[k].by

\* The step is a call of account.removeEventListener(uuid) by the account's
\* user.
RemoveCalled(uuid) ==
    /\ Len(history') = Len(history) + 1
    /\ history'[Len(history')] =
           [call |-> "remove", type |-> "none", id |-> uuid, data |-> "none"]

\* C12: removeEventListener with an id no registration has (never issued, or
\* removed before) yields an emitter, not an error, and leaves the
\* registrations of every type as they were, in the same order, together with
\* the rest of the emitter.
C12_UnknownIdIsNoOp ==
    [][\A uuid \in 1..(MaxEmitterCalls + 1) :
           (RemoveCalled(uuid) /\ uuid \notin Registered(emitter)) =>
               /\ emitter'.listeners = emitter.listeners
               /\ emitter' = emitter
               /\ DOMAIN emitter' = DOMAIN NewEmitter]_vars

\* No registration has the id passed to the removeEventListener at position i.
UnknownAt(i) ==
    \A k \in HistoryCalls :
        (k < i /\ history[k].call \in {"on", "wait"} /\ history[k].id = history[i].id)
            => RemovedAt(k) < i

\* removeEventListener was called with an id no registration had, while a
\* listener was registered that a later notifyListeners invoked.
C12_Witness ==
    \E i \in HistoryCalls :
        /\ history[i].call = "remove"
        /\ history[i].data = "none"
        /\ UnknownAt(i)
        /\ \E k \in HistoryCalls :
              /\ k < i
              /\ history[k].call = "on"
              /\ \E j \in NotifiedAfter(k) : j > i /\ j \in DeliveryDates(history[k].id)

\* The event is the one of a notifyListeners call of the history, and the
\* registration id was made for the type of that call.
DeliveredAsNotified(id, event) ==
    /\ event.date \in HistoryCalls
    /\ history[event.date].call = "notify"
    /\ event.type = history[event.date].type
    /\ event.data = history[event.date].data
    /\ \E i \in HistoryCalls :
          /\ i < event.date
          /\ history[i].call \in {"on", "wait"}
          /\ history[i].id = id
          /\ history[i].type = event.type

\* C15: every event a listener is invoked with, and every event an on(type)
\* promise resolves with, has the type and exactly the payload of the
\* notifyListeners call it comes from, and that type is the one the listener
\* was registered for.
C15_EventsAsNotified ==
    /\ \A k \in 1..Len(emitter.deliveries) :
           DeliveredAsNotified(emitter.deliveries[k].id, emitter.deliveries[k].event)
    /\ \A k \in 1..Len(emitter.resolved) :
           DeliveredAsNotified(emitter.resolved[k].id, emitter.resolved[k].event)

\* Listeners of two types were registered and each got the event of its own
\* type, the two events carrying different payloads.
C15_Witness ==
    \E k1, k2 \in 1..Len(emitter.deliveries) :
        /\ emitter.deliveries[k1].id # emitter.deliveries[k2].id
        /\ emitter.deliveries[k1].event.type # emitter.deliveries[k2].event.type
        /\ emitter.deliveries[k1].event.data # emitter.deliveries[k2].event.data
        /\ Len(emitter.deliveries) = 2

\* C10: account.notifyListeners has not returned to its caller while a listener
\* of the event is still to be invoked or still reacting.
C10_ReturnsAfterReactions ==
    \A n \in 1..Len(dispatches) : dispatches[n].returned => DispatchDone(dispatches[n])

=============================================================================
